---- MODULE Spec2Model ----
(***************************************************************************)
(* Model of the MCP HTTP transport server (HttpServer in                   *)
(* src/plugins/mcpserverbackend/sse/httpserver.cpp): session registry,     *)
(* pending-request queue of the Streamable HTTP transport, and the         *)
(* handlers for GET /sse, GET /mcp, DELETE /mcp, POST /mcp, POST /,        *)
(* POST /messages/ and the backend's send().                               *)
(*                                                                         *)
(* Every handler runs to completion on the event loop, so one handler is   *)
(* one action.  A handler is written as an operator that maps the current  *)
(* state to a record holding the new value of every field of               *)
(* HttpServer::Private plus `out`, the socket writes and signals the       *)
(* handler issued, in program order.                                       *)
(*                                                                         *)
(* Spec is the server with clients that keep their connections open;       *)
(* SpecDisconnect adds clients that drop a connection the server holds.    *)
(* SpecClient is the client (QMcpClientSse in                              *)
(* src/plugins/mcpclientbackend/sse/qmcpclientsse.cpp): the probe of the   *)
(* new transport, the fallback to GET /sse and the parser of the event     *)
(* stream, against a network that may answer anything.                     *)
(***************************************************************************)
EXTENDS Integers, Sequences, FiniteSets, TLC

\* ---------------------------------------------------------------- bounds
MaxUuid == 2
MaxSockets == 2
MaxObj == 2

\* ------------------------------------------------------------- constants
Null == 0
NoSocket == 0
Absent == -1
Garbage == -2
ForeignUuid == 99

Sockets == 1..(MaxSockets + 1)
Objects == 1..MaxObj
Bodies == {"invalid", "notification", "request"}
Accepts == {"text/event-stream", "application/json, text/event-stream", "application/json"}

VARIABLES
    sessions,                 \* QSet<QUuid> Private::sessions
    implicitSession,          \* QUuid Private::implicitSession
    sessionUsesNewProtocol,   \* QHash<QUuid,bool> Private::sessionUsesNewProtocol
    pendingRequests,          \* QList<PendingRequest> Private::pendingRequests
    sseStreams,               \* SSE streams registered in the base class: uuid -> socket
    nextUuid,                 \* number of uuids created so far
    req,                      \* the request / call handled by the last step
    out,                      \* writes and signals of the last step, in order
    awaiting,                 \* per session: sockets of accepted requests (with id), in arrival order, still owed a response
    closed,                   \* sockets the server still refers to whose client has disconnected
    terminated,               \* ids of streamable_http sessions ended by DELETE /mcp and not registered since
    crashed,                  \* the process has died on a write through a dangling socket pointer
    lostStreams,              \* ids of the legacy sessions whose event-stream socket has disconnected
    announced,                \* per uuid: how often newSession(uuid) has been emitted
    client,                   \* QMcpClientSse::Private of one client
    net,                      \* the client's requests in flight and its event stream
    signals                   \* the signals the client has emitted, in order

vars == <<sessions, implicitSession, sessionUsesNewProtocol, pendingRequests,
          sseStreams, nextUuid, req, out, awaiting, closed, terminated, crashed,
          lostStreams, announced, client, net, signals>>

\* the state of the server and of its environment
serverVars == <<sessions, implicitSession, sessionUsesNewProtocol, pendingRequests,
                sseStreams, nextUuid, req, out, awaiting, closed, terminated, crashed,
                lostStreams, announced>>

\* the state of the client and of its environment
clientVars == <<client, net, signals>>

\* ------------------------------------------------------------ conversions
\* QUuid::fromString(header): a uuid, or the null uuid for unparsable text
FromString(h) == IF h >= 1 THEN h ELSE Null

hasRawHeader(h) == h # Absent

\* QJsonDocument::fromJson(body): NoError && doc.isObject()
ParseOk(body) == body \in {"notification", "request"}

\* every JSON object taken for a request
ContainsIdAlways(body) == TRUE

\* jsonObj.contains("id")
ContainsId(body) == body = "request"

\* getMcp: Accept header present and contains "text/event-stream"
WantsSSE(accept) == accept \in {"text/event-stream", "application/json, text/event-stream"}

\* getSse: Accept header present and equal to "text/event-stream"
AcceptIsEventStream(accept) == accept = "text/event-stream"

\* --------------------------------------------------------------- events
Ev(type, sock, status, session, clen, code, info, obj) ==
    [type |-> type, sock |-> sock, status |-> status, session |-> session,
     clen |-> clen, code |-> code, info |-> info, obj |-> obj]

\* socket->write(response); socket->flush();   clen = -1: no Content-Length
Write(sock, status, session, clen, code, info, obj) ==
    Ev("write", sock, status, session, clen, code, info, obj)

NewSession(s) == Ev("newSession", NoSocket, 0, s, -1, 0, "", 0)

Received(s, body) == Ev("received", NoSocket, 0, s, -1, 0, body, 0)

RegisterSession(s, sock) == Ev("registerSession", sock, 0, s, -1, 0, "", 0)

SseEvent(s, sock, obj) == Ev("sse", sock, 0, s, -1, 0, "message", obj)

Return(body) == Ev("return", NoSocket, 0, Null, -1, 0, body, 0)

\* ---------------------------------------------------------- containers
\* QHash::value(key, false)
Value(h, k) == IF k \in DOMAIN h THEN h[k] ELSE FALSE

\* the transport send() dispatches on for session s under the map h
Transport(h, s) == IF Value(h, s) THEN "streamable_http" ELSE "legacy_sse"

\* QHash::insert(key, v)
Insert(h, k, v) == [x \in DOMAIN h \cup {k} |-> IF x = k THEN v ELSE h[x]]

\* QHash::remove(key)
Remove(h, k) == [x \in DOMAIN h \ {k} |-> h[x]]

\* QList::removeAt(i) / takeAt(i), 1-based
RemoveAt(q, i) == [j \in 1..(Len(q) - 1) |-> IF j < i THEN q[j] ELSE q[j + 1]]

PendingRequest(sock, s) == [socket |-> sock, sessionId |-> s]

\* the request is put in front of the queue instead of behind it
EnqueueFront(q, sock, s) == <<PendingRequest(sock, s)>> \o q

\* d->pendingRequests.append(pending)
Enqueue(q, sock, s) == Append(q, PendingRequest(sock, s))

\* the stale-session check left out: every well-formed id passes
ContainsAny(set, s) == TRUE

\* d->sessions.contains(session)
Contains(set, s) == s \in set

\* the session of the entry is not compared: the oldest entry of the queue
FirstPendingOfAny(q, s) == IF q # << >> THEN 1 ELSE 0

\* index of the first pending entry of session s, 0 when there is none
\* (the forward loops of sendWithHeader and postMcp)
FirstPending(q, s) ==
    IF \E i \in 1..Len(q) : q[i].sessionId = s
    THEN CHOOSE i \in 1..Len(q) :
            /\ q[i].sessionId = s
            /\ \A j \in 1..(i - 1) : q[j].sessionId # s
    ELSE 0

\* the sweep with its loop stopping at i > 0: the oldest entry is never examined
RemoveSessionSkipsOldest(q, s) ==
    IF q = << >> THEN q
    ELSE <<Head(q)>> \o SelectSeq(Tail(q), LAMBDA p : p.sessionId # s)

\* the backward loop of deleteMcp: every entry of session s is removed
RemoveSession(q, s) == SelectSeq(q, LAMBDA p : p.sessionId # s)

Range(q) == {q[i] : i \in 1..Len(q)}

WritesOf(o) == {o[i] : i \in {j \in 1..Len(o) : o[j].type = "write"}}

\* the state of HttpServer::Private (and of the stream table of the base
\* class) as one record; a handler returns a changed copy
Cur == [sessions |-> sessions,
        implicitSession |-> implicitSession,
        sessionUsesNewProtocol |-> sessionUsesNewProtocol,
        pendingRequests |-> pendingRequests,
        sseStreams |-> sseStreams,
        nextUuid |-> nextUuid,
        out |-> <<>>]

\* QUuid::createUuid(): a uuid different from every one created before
CreateUuid == nextUuid + 1


\* QMcpAbstractHttpServer::getSocketForRequest: the framing layer hands every
\* request over together with the socket it arrived on
getSocketForRequest(sock) == sock

\* ------------------------------------------------------------- handlers
\* getSse registering the stream without telling the backend
getSseUnannounced(accept, sock) ==
    IF AcceptIsEventStream(accept)
    THEN LET uuid == CreateUuid
         IN [Cur EXCEPT !.nextUuid = uuid,
                        !.sseStreams = Insert(sseStreams, uuid, sock),
                        !.sessions = sessions \cup {uuid},
                        !.out = <<Ev("return", NoSocket, 0, uuid, -1, 0, "endpoint", 0)>>]
    ELSE [Cur EXCEPT !.out = <<Return("")>>]

\* HttpServer::getSse
getSse(accept, sock) ==
    IF AcceptIsEventStream(accept)
    THEN LET uuid == CreateUuid   \* registerSseRequest(request)
         IN [Cur EXCEPT !.nextUuid = uuid,
                        !.sseStreams = Insert(sseStreams, uuid, sock),
                        !.sessions = sessions \cup {uuid},
                        !.out = <<NewSession(uuid),
                                  Ev("return", NoSocket, 0, uuid, -1, 0, "endpoint", 0)>>]
    ELSE [Cur EXCEPT !.out = <<Return("")>>]

\* the body parsing tail shared by post and postMessages:
\* emit received(session, object) for a JSON object, a warning otherwise
Forward(session, body) ==
    IF ParseOk(body) THEN <<Received(session, body)>> ELSE <<>>

\* the implicit session is taken for missing on every headerless POST
isNullAlways(u) == TRUE

\* QUuid::isNull()
isNull(u) == u = Null

\* HttpServer::post (root POST); pick is the element *d->sessions.begin()
\* yields, any member of the set
post(hdr, body, sock, pick) ==
    IF hasRawHeader(hdr)
    THEN LET session == FromString(hdr) IN
         IF session = Null
         THEN [Cur EXCEPT !.out = <<Return("")>>]
         ELSE IF ~Contains(sessions, session)
         THEN [Cur EXCEPT !.out =
                  <<Write(getSocketForRequest(sock), 400, Null, -1, -32600, "session_not_found", 0),
                    Return("")>>]
         ELSE [Cur EXCEPT !.pendingRequests =
                              Enqueue(pendingRequests, getSocketForRequest(sock), session),
                          !.out = Forward(session, body) \o <<Return("")>>]
    ELSE IF sessions # {}
         THEN [Cur EXCEPT !.out = Forward(pick, body) \o <<Return("Accept")>>]
         ELSE IF ~isNull(implicitSession)
         THEN [Cur EXCEPT !.out = Forward(implicitSession, body) \o <<Return("Accept")>>]
         ELSE LET session == CreateUuid IN
              [Cur EXCEPT !.nextUuid = session,
                          !.implicitSession = session,
                          !.out = <<NewSession(session)>> \o Forward(session, body)
                                  \o <<Return("Accept")>>]

\* HttpServer::postMessages; sid is the session_id query item
postMessages(sid, body) ==
    LET session == FromString(sid) IN
    IF session = Null
    THEN [Cur EXCEPT !.out = <<Return("")>>]
    ELSE IF ~Contains(sessions, session)
    THEN [Cur EXCEPT !.out = <<Return("")>>]
    ELSE [Cur EXCEPT !.out = Forward(session, body) \o <<Return("Accept")>>]

\* sendWithHeader answering the oldest pending request of any session
sendWithHeaderTakesHead(session, obj) ==
    IF pendingRequests # << >>
    THEN [Cur EXCEPT !.pendingRequests = Tail(pendingRequests),
                     !.out = <<Write(Head(pendingRequests).socket, 200, session, 1, 0, "json", obj)>>]
    ELSE Cur

\* HttpServer::sendWithHeader
sendWithHeader(session, obj) ==
    LET i == FirstPending(pendingRequests, session) IN
    IF i # 0
    THEN [Cur EXCEPT !.pendingRequests = RemoveAt(pendingRequests, i),
                     !.out = <<Write(pendingRequests[i].socket, 200, session, 1, 0, "json", obj)>>]
    ELSE Cur

\* QMcpAbstractHttpServer::sendSseEvent: an event on the stream of that id,
\* nothing when the id has no stream
sendSseEvent(session, obj) ==
    IF session \in DOMAIN sseStreams
    THEN [Cur EXCEPT !.out = <<SseEvent(session, sseStreams[session], obj)>>]
    ELSE Cur

\* HttpServer::send
send(session, obj) ==
    IF Value(sessionUsesNewProtocol, session)
    THEN sendWithHeader(session, obj)
    ELSE sendSseEvent(session, obj)

\* getMcp registers a stale id as it came: only a GET without header is new
IsNewSessionOnlyWithoutHeader(hdr) == ~hasRawHeader(hdr)

\* getMcp's isNewSession: no header, or a header naming an unknown session
IsNewSession(hdr) == ~hasRawHeader(hdr) \/ ~Contains(sessions, FromString(hdr))

\* HttpServer::getMcp
getMcp(accept, hdr, sock) ==
    IF WantsSSE(accept)
    THEN [Cur EXCEPT !.out = <<Write(getSocketForRequest(sock), 405, Null, 53, 0, "sse_not_supported", 0),
                               Return("")>>]
    ELSE IF hasRawHeader(hdr) /\ FromString(hdr) = Null
    THEN [Cur EXCEPT !.out = <<Return("")>>]
    ELSE LET isNewSession == IsNewSession(hdr)
             session == IF isNewSession THEN CreateUuid ELSE FromString(hdr)
         IN [Cur EXCEPT !.nextUuid = IF isNewSession THEN session ELSE nextUuid,
                        !.sessionUsesNewProtocol = Insert(sessionUsesNewProtocol, session, TRUE),
                        !.sessions = sessions \cup {session},
                        !.out = <<RegisterSession(session, sock)>>
                                \o (IF isNewSession THEN <<NewSession(session)>> ELSE <<>>)
                                \o <<Write(getSocketForRequest(sock), 204, session, -1, 0, "", 0),
                                     Return("")>>]

\* HttpServer::deleteMcp
deleteMcp(hdr, sock) ==
    IF ~hasRawHeader(hdr)
    THEN [Cur EXCEPT !.out = <<Return("")>>]
    ELSE LET session == FromString(hdr) IN
         IF session = Null
         THEN [Cur EXCEPT !.out = <<Return("")>>]
         ELSE [Cur EXCEPT !.sessionUsesNewProtocol = Remove(sessionUsesNewProtocol, session),
                          !.sessions = sessions \ {session},
                          !.pendingRequests = RemoveSession(pendingRequests, session),
                          !.out = <<RegisterSession(session, sock),
                                    Write(getSocketForRequest(sock), 200, session, 0, 0, "", 0),
                                    Return("")>>]

\* a POST /mcp without Mcp-Session-Id opening a session for the caller
missingSessionHeaderOpensSession(sock) ==
    LET session == CreateUuid IN
    [Cur EXCEPT !.nextUuid = session,
                !.sessions = sessions \cup {session},
                !.sessionUsesNewProtocol = Insert(sessionUsesNewProtocol, session, TRUE),
                !.out = <<RegisterSession(session, sock),
                          NewSession(session),
                          Write(getSocketForRequest(sock), 200, session, 1, 0, "json", 0),
                          Return("")>>]

\* HttpServer::postMcp without an Mcp-Session-Id header: 400, no session
\* header in the response
missingSessionHeader(sock) ==
    [Cur EXCEPT !.out = <<Write(getSocketForRequest(sock), 400, Null, -1, -32600, "missing_header", 0),
                          Return("")>>]

\* HttpServer::postMcp
postMcp(hdr, body, sock) ==
    IF ~hasRawHeader(hdr)
    THEN missingSessionHeader(sock)
    ELSE LET session == FromString(hdr) IN
         IF session = Null
         THEN [Cur EXCEPT !.out = <<Write(getSocketForRequest(sock), 400, Null, -1, -32600, "invalid_format", 0),
                                    Return("")>>]
         ELSE IF ~Contains(sessions, session)
         THEN [Cur EXCEPT !.out = <<Write(getSocketForRequest(sock), 400, session, -1, -32600, "session_not_found", 0),
                                    Return("")>>]
         ELSE LET marked == Insert(sessionUsesNewProtocol, session, TRUE) IN
              IF ParseOk(body)
              THEN IF ContainsId(body)
                   THEN [Cur EXCEPT !.sessionUsesNewProtocol = marked,
                                    !.pendingRequests = Enqueue(pendingRequests, sock, session),
                                    !.out = <<RegisterSession(session, sock),
                                              Received(session, body),
                                              Return("")>>]
                   ELSE [Cur EXCEPT !.sessionUsesNewProtocol = marked,
                                    !.out = <<RegisterSession(session, sock),
                                              Write(sock, 202, session, 0, 0, "", 0),
                                              Received(session, body),
                                              Return("")>>]
              ELSE LET i == FirstPending(pendingRequests, session) IN
                   [Cur EXCEPT !.sessionUsesNewProtocol = marked,
                               !.pendingRequests =
                                   IF i # 0 THEN RemoveAt(pendingRequests, i) ELSE pendingRequests,
                               !.out = <<RegisterSession(session, sock),
                                         Write(sock, 400, Null, 1, 0, "invalid_json", 0),
                                         Return("")>>]

\* ---------------------------------------------------------- environment
\* a connection is held while the server keeps its socket for a deferred
\* response or an event stream, or while its request is still owed a response
Held == {p.socket : p \in Range(pendingRequests)}
        \cup {sseStreams[u] : u \in DOMAIN sseStreams}
        \cup UNION {Range(awaiting[u]) : u \in DOMAIN awaiting}

\* the connection the next request arrives on: the lowest free one, if any
FreeSocket == {k \in Sockets \ Held : \A j \in Sockets \ Held : k <= j}

\* header values a client can present: none, unparsable text, a uuid the
\* server never issued, or any uuid the server has issued so far
Headers == {Absent, Garbage, ForeignUuid} \cup 1..nextUuid

Req(op, hdr, accept, body, sock, session, obj) ==
    [op |-> op, hdr |-> hdr, accept |-> accept, body |-> body, sock |-> sock,
     session |-> session, obj |-> obj]

\* no request is being handled: the event loop waits for the next one
NoReq == Req("idle", Absent, "", "", NoSocket, Null, 0)

\* the sockets the pending queue q refers to
PendingSockets(q) == {p.socket : p \in Range(q)}

\* the streamable_http sessions that handler result e has taken out of the
\* registry
Terminated(e) ==
    {s \in sessions \ e.sessions : Transport(sessionUsesNewProtocol, s) = "streamable_http"}

\* how often the signal or write ev occurs in the output o of a handler
Emitted(o, ev) == Cardinality({i \in 1..Len(o) : o[i] = ev})

ApplyServer(e) ==
    /\ e.nextUuid <= MaxUuid
    /\ sessions' = e.sessions
    /\ implicitSession' = e.implicitSession
    /\ sessionUsesNewProtocol' = e.sessionUsesNewProtocol
    /\ pendingRequests' = e.pendingRequests
    /\ sseStreams' = e.sseStreams
    /\ nextUuid' = e.nextUuid
    /\ out' = e.out
    /\ closed' = closed \cap PendingSockets(e.pendingRequests)
    /\ terminated' = (terminated \cup Terminated(e)) \ e.sessions
    /\ lostStreams' = lostStreams
    /\ announced' = [u \in DOMAIN announced |-> announced[u] + Emitted(e.out, NewSession(u))]

\* the result e of a handler becomes the state of the server; the client of
\* the other half of the module is not involved
Apply(e) == ApplyServer(e) /\ UNCHANGED clientVars

\* a POST that carries a request (object with id) for a known session that
\* is on the new transport once the handler is done: it is owed a response
Owed(e, hdr, body) ==
    /\ hasRawHeader(hdr)
    /\ FromString(hdr) \in sessions
    /\ Value(e.sessionUsesNewProtocol, FromString(hdr))
    /\ ParseOk(body) /\ ContainsId(body)

Arrive(e, hdr, body, sock) ==
    awaiting' = IF Owed(e, hdr, body)
                THEN [awaiting EXCEPT ![FromString(hdr)] = Append(@, sock)]
                ELSE awaiting

\* at most MaxSockets connections are kept open by the server at a time
Capacity == Cardinality(Held) <= MaxSockets

\* QMcpClientSse::Private after construction; data is the function-static
\* buffer of the readyRead handler
NewClient ==
    [sse |-> "", message |-> "", usesNewProtocol |-> FALSE, sessionId |-> Null,
     eventStream |-> "null", data |-> << >>, crashed |-> FALSE]

NoPost == [url |-> "", hdr |-> Absent, handled |-> FALSE]

\* the network as the client sees it: the probe request and its reply, the bytes of the
\* event stream still to come and those already read, the last POST issued,
\* and the client's last step; and of the parser's run so far, the
\* separators it has cut event blocks with and whether it has read a line
\* out of range
NoNet ==
    [probe |-> "none", reply |-> [error |-> FALSE, hdr |-> Absent],
     stream |-> << >>, fed |-> << >>, posted |-> NoPost, step |-> "idle",
     seps |-> {}, oob |-> FALSE]

Init ==
    /\ sessions = {}
    /\ implicitSession = Null
    /\ sessionUsesNewProtocol = << >>
    /\ pendingRequests = << >>
    /\ sseStreams = << >>
    /\ nextUuid = 0
    /\ req = NoReq
    /\ out = << >>
    /\ awaiting = [u \in 1..MaxUuid |-> << >>]
    /\ closed = {}
    /\ terminated = {}
    /\ crashed = FALSE
    /\ lostStreams = {}
    /\ announced = [u \in 1..MaxUuid |-> 0]
    /\ client = NewClient
    /\ net = NoNet
    /\ signals = << >>

GetSse ==
    /\ req = NoReq
    /\ UNCHANGED crashed
    /\ \E accept \in Accepts, sock \in FreeSocket :
        /\ req' = Req("getSse", Absent, accept, "", sock, Null, 0)
        /\ \E e \in {getSse(accept, sock)} : Apply(e)
        /\ UNCHANGED awaiting
        /\ Capacity'

GetMcp ==
    /\ req = NoReq
    /\ UNCHANGED crashed
    /\ \E accept \in Accepts, hdr \in Headers, sock \in FreeSocket :
        /\ req' = Req("getMcp", hdr, accept, "", sock, Null, 0)
        /\ \E e \in {getMcp(accept, hdr, sock)} : Apply(e)
        /\ UNCHANGED awaiting

DeleteMcp ==
    /\ req = NoReq
    /\ UNCHANGED crashed
    /\ \E hdr \in Headers, sock \in FreeSocket :
        /\ req' = Req("deleteMcp", hdr, "", "", sock, Null, 0)
        /\ \E e \in {deleteMcp(hdr, sock)} : Apply(e)
        /\ awaiting' = IF FromString(hdr) \in DOMAIN awaiting
                       THEN [awaiting EXCEPT ![FromString(hdr)] = << >>]
                       ELSE awaiting

PostMcp ==
    /\ req = NoReq
    /\ UNCHANGED crashed
    /\ \E hdr \in Headers, body \in Bodies, sock \in FreeSocket :
        /\ req' = Req("postMcp", hdr, "", body, sock, Null, 0)
        /\ \E e \in {postMcp(hdr, body, sock)} :
               Apply(e) /\ Arrive(e, hdr, body, sock)
        /\ Capacity'

Post ==
    /\ req = NoReq
    /\ UNCHANGED crashed
    /\ \E hdr \in Headers, body \in Bodies, pick \in sessions \cup {Null}, sock \in FreeSocket :
        /\ pick = Null <=> (hasRawHeader(hdr) \/ sessions = {})
        /\ req' = Req("post", hdr, "", body, sock, Null, 0)
        /\ \E e \in {post(hdr, body, sock, pick)} :
               Apply(e) /\ Arrive(e, hdr, body, sock)
        /\ Capacity'

PostMessages ==
    /\ req = NoReq
    /\ UNCHANGED crashed
    /\ \E sid \in Headers, body \in Bodies, sock \in FreeSocket :
        /\ req' = Req("postMessages", sid, "", body, sock, Null, 0)
        /\ \E e \in {postMessages(sid, body)} : Apply(e)
        /\ UNCHANGED awaiting

\* the backend calls send(session, object) for a session announced to it
Send ==
    /\ req = NoReq
    /\ \E session \in 1..nextUuid, obj \in Objects :
        /\ req' = Req("send", Absent, "", "", NoSocket, session, obj)
        /\ \E e \in {send(session, obj)} :
               /\ Apply(e)
               /\ crashed' \in IF \E w \in WritesOf(e.out) : w.sock \in closed
                               THEN BOOLEAN ELSE {FALSE}
        /\ awaiting' = IF Value(sessionUsesNewProtocol, session) /\ awaiting[session] # << >>
                       THEN [awaiting EXCEPT ![session] = Tail(@)]
                       ELSE awaiting

\* the handler has returned to the event loop; its request and output are
\* history, the server state stays
Returned ==
    /\ req # NoReq
    /\ ~crashed
    /\ req' = NoReq
    /\ out' = << >>
    /\ UNCHANGED <<sessions, implicitSession, sessionUsesNewProtocol, pendingRequests,
                   sseStreams, nextUuid, awaiting, closed, terminated, crashed,
                   lostStreams, announced, client, net, signals>>

\* the server with clients that keep their connections open
Next == GetMcp \/ PostMcp \/ Post \/ DeleteMcp \/ Send \/ GetSse \/ PostMessages
        \/ Returned

Spec == Init /\ [][Next]_vars

\* the stream table of the base class without the streams on socket sock
DropStream(h, sock) == [u \in {x \in DOMAIN h : h[x] # sock} |-> h[u]]

\* the client of a connection the server holds goes away.  HttpServer
\* connects no slot to it and the base class offers it no notification: no
\* field of HttpServer::Private changes.  The base class forgets the event
\* stream on that socket; a pending entry keeps its socket pointer.
Disconnect ==
    /\ req = NoReq
    /\ \E sock \in Held \ closed :
        /\ req' = Req("disconnect", Absent, "", "", sock, Null, 0)
        /\ out' = << >>
        /\ sseStreams' = DropStream(sseStreams, sock)
        /\ awaiting' = [u \in DOMAIN awaiting |->
                            SelectSeq(awaiting[u], LAMBDA k : k # sock)]
        /\ closed' = (closed \cup {sock}) \cap PendingSockets(pendingRequests)
        /\ lostStreams' = lostStreams \cup {u \in DOMAIN sseStreams : sseStreams[u] = sock}
    /\ UNCHANGED <<sessions, implicitSession, sessionUsesNewProtocol, pendingRequests,
                   nextUuid, terminated, crashed, announced, client, net, signals>>

\* the server with clients that may drop a connection the server holds
NextDisconnect == Next \/ Disconnect

SpecDisconnect == Init /\ [][NextDisconnect]_vars

\* ------------------------------------------------------- client: parser
\* QMcpClientSse (src/plugins/mcpclientbackend/sse/qmcpclientsse.cpp).
\* The event stream is a sequence of bytes.  The two bytes the parser
\* searches for are kept as bytes; a run of other bytes that makes up one
\* line of an event is kept as one element, since no search of the parser
\* can match inside it.
MaxEvents == 2

CR == "CR"
LF == "LF"

EvEndpoint == "event: endpoint"
EvMessage == "event: message"
DataPath == "data: /messages/?session_id=1"
DataK1 == "data: {k:1}"
Ping == ": ping"

Separators == {<<CR, LF>>, <<LF>>}

\* the event blocks a server writes with separator sep: the endpoint event,
\* a message event, the keepalive comment, and an event without data line
Blocks(sep) ==
    { <<EvEndpoint>> \o sep \o <<DataPath>> \o sep \o sep,
      <<EvMessage>> \o sep \o <<DataK1>> \o sep \o sep,
      <<Ping>> \o sep \o sep,
      <<EvMessage>> \o sep \o sep }

AllBlocks == UNION {Blocks(sep) : sep \in Separators}

RECURSIVE StreamsOf(_)
\* the byte streams made of exactly n event blocks
StreamsOf(n) ==
    IF n = 0 THEN {<< >>}
    ELSE {b \o s : b \in AllBlocks, s \in StreamsOf(n - 1)}

\* the byte streams of at most MaxEvents event blocks
Streams == UNION {StreamsOf(n) : n \in 0..MaxEvents}

\* QByteArray::indexOf(pat, from), 1-based; 0 when pat does not occur
IndexOf(s, pat, from) ==
    LET hits == {i \in from..(Len(s) - Len(pat) + 1) : SubSeq(s, i, i + Len(pat) - 1) = pat}
    IN IF hits = {} THEN 0 ELSE CHOOSE i \in hits : \A j \in hits : i <= j

\* QByteArray::contains(pat)
ContainsBytes(s, pat) == IndexOf(s, pat, 1) # 0

RECURSIVE SplitLines(_, _, _)
\* the line loop of the parser (qmcpclientsse.cpp:138-146): it runs while
\* the separator is found at an offset greater than zero
SplitLines(chunk, sep, from) ==
    LET separator1 == IndexOf(chunk, sep, from) IN
    IF separator1 > 1
    THEN <<SubSeq(chunk, from, separator1 - 1)>>
         \o SplitLines(chunk, sep, separator1 + Len(sep))
    ELSE <<SubSeq(chunk, from, Len(chunk))>>

IsByte(t) == t \in {CR, LF}

\* firstLine.left(firstLine.indexOf(':')): the text before the first colon;
\* "" when the line has no colon or starts with it
TypeOf(line) ==
    IF line = << >> THEN ""
    ELSE IF IsByte(line[1])
    THEN IF \A i \in 1..Len(line) : IsByte(line[i]) THEN "" ELSE "other"
    ELSE IF line[1] \in {EvEndpoint, EvMessage} THEN "event"
    ELSE IF line[1] = Ping THEN ""
    ELSE "data"

\* firstLine.mid(colon + 2) compared with a name: the line is the name's
\* line and nothing follows it
KeyIs(line, name) ==
    /\ Len(line) = 1
    /\ \/ name = "endpoint" /\ line[1] = EvEndpoint
       \/ name = "message" /\ line[1] = EvMessage

\* data.startsWith("data: ")
StartsWithData(line) == line # << >> /\ line[1] \in {DataPath, DataK1}

\* data.mid(6) of a one-element data line
PayloadOf(t) == IF t = DataPath THEN "/messages/?session_id=1" ELSE "{k:1}"

\* QJsonDocument::fromJson(data.mid(6)) without error: a JSON text, followed
\* by nothing but white space
JsonOk(line) ==
    /\ line[1] = DataK1
    /\ \A i \in 2..Len(line) : IsByte(line[i])

\* message.setPath / setQuery from data.mid(6)
EndpointOf(line) ==
    IF Len(line) = 1 THEN PayloadOf(line[1]) ELSE "mangled"

Signal(name, arg) == [signal |-> name, arg |-> arg]

\* ------------------------------------------------------- client: state
\* what the reply to the probe can carry in Mcp-Session-Id
ReplyHeaders == {Absent, Garbage, 1}

\* the header check left out of the probe's finished handler: a reply
\* without network error is taken for the new transport
AdoptsOnSuccess(error, hdr) == ~error

\* the probe's finished handler decides for the new transport
\* (qmcpclientsse.cpp:76-82)
Adopts(error, hdr) == ~error /\ hasRawHeader(hdr) /\ FromString(hdr) # Null

\* QMcpClientSse::Private::start and tryNewProtocol up to the POST
tryNewProtocol(c) == [c EXCEPT !.sse = "url", !.message = "/mcp"]

\* QMcpClientSse::Private::fallbackToLegacyProtocol up to the GET
fallbackToLegacyProtocol(c) ==
    [c EXCEPT !.usesNewProtocol = FALSE, !.sse = "url/sse", !.eventStream = "open"]

\* the finished handler of the probe (qmcpclientsse.cpp:72-95); the result
\* is the client and the signals it emitted
probeFinished(c, error, hdr) ==
    LET read == IF ~error /\ hasRawHeader(hdr)
                THEN [c EXCEPT !.sessionId = FromString(hdr)] ELSE c
    IN IF Adopts(error, hdr)
       THEN [client |-> [read EXCEPT !.usesNewProtocol = TRUE],
             signals |-> <<Signal("started", "")>>]
       ELSE [client |-> fallbackToLegacyProtocol(read), signals |-> << >>]

\* one event block of the stream (qmcpclientsse.cpp:135-189); st holds the
\* client and the signals emitted so far.  lines.at(1) on a block of one
\* line reads a line that does not exist: the process dies there, or what
\* is read does not start with "data: " and the block is skipped; st.died
\* collects the outcomes in which it died, st.oob tells that such a read
\* took place.
ProcessBlock(st, chunk, separator) ==
    LET lines == SplitLines(chunk, separator, 1)
        firstLine == lines[1]
        type == TypeOf(firstLine)
    IN IF type = "" THEN st    \* a keepalive comment, or a warning
       ELSE IF type = "event"
       THEN IF Len(lines) < 2
            THEN [st EXCEPT !.oob = TRUE,
                            !.died = @ \cup {[client |-> [st.client EXCEPT !.crashed = TRUE],
                                             signals |-> st.signals,
                                             used |-> st.used,
                                             oob |-> TRUE]}]
            ELSE LET dataLine == lines[2] IN
                 IF ~StartsWithData(dataLine) THEN st
                 ELSE IF KeyIs(firstLine, "endpoint")
                 THEN [st EXCEPT !.client.message = EndpointOf(dataLine),
                                 !.signals = Append(@, Signal("started", ""))]
                 ELSE IF KeyIs(firstLine, "message")
                 THEN IF JsonOk(dataLine)
                      THEN [st EXCEPT !.signals =
                                Append(@, Signal("received", PayloadOf(dataLine[1])))]
                      ELSE st
                 ELSE st
       ELSE st

RECURSIVE ParseLoop(_, _)
\* the while loop of the readyRead handler (qmcpclientsse.cpp:121-190);
\* separator is << >> until the loop has chosen one
ParseLoop(st, separator) ==
    LET data == st.client.data
        chosen == IF separator # << >> THEN separator
                  ELSE IF ContainsBytes(data, <<CR, LF, CR, LF>>) THEN <<CR, LF>>
                  ELSE IF ContainsBytes(data, <<LF, LF>>) THEN <<LF>>
                  ELSE << >>
        separator2 == IndexOf(data, chosen \o chosen, 1)
    IN IF chosen = << >> \/ separator2 = 0
       THEN st
       ELSE LET chunk == SubSeq(data, 1, separator2 - 1)
                rest == SubSeq(data, separator2 + 2 * Len(chosen), Len(data))
            IN ParseLoop(ProcessBlock([st EXCEPT !.client.data = rest,
                                                 !.used = @ \cup {chosen}],
                                      chunk, chosen),
                         chosen)

\* the readyRead handler (qmcpclientsse.cpp:116-191): received is what
\* eventStream->readAll() returns; the separator starts empty on every call.
\* The result holds the client and the signals of the call when every read
\* out of range was survived, and in died the outcomes when one was not;
\* used holds the separators the call has cut blocks with.
readyRead(c, received) ==
    ParseLoop([client |-> [c EXCEPT !.data = c.data \o received], signals |-> << >>,
               used |-> {}, oob |-> FALSE, died |-> {}],
              << >>)

\* what a call of the readyRead handler can leave behind
Outcomes(r) ==
    {[client |-> r.client, signals |-> r.signals, used |-> r.used, oob |-> r.oob]}
    \cup r.died

\* QMcpClientSse::send up to the POST: the request issued, NoPost if none;
\* the client does not look into the object it posts
clientSend(c) ==
    IF c.message = "" THEN NoPost
    ELSE [url |-> c.message,
          hdr |-> IF c.usesNewProtocol /\ c.sessionId # Null THEN c.sessionId ELSE Absent,
          handled |-> c.usesNewProtocol]

\* ------------------------------------------------------ client: steps
\* QMcpClientSse::start: the probe POST to /mcp is issued
Start ==
    /\ net.probe = "none"
    /\ client' = tryNewProtocol(client)
    /\ net' = [net EXCEPT !.probe = "inflight", !.step = "start"]
    /\ UNCHANGED <<signals, serverVars>>

\* the probe's reply has arrived; on fallback the GET /sse is issued and the
\* server's answer is one of the streams
ProbeFinished ==
    /\ net.probe = "inflight"
    /\ \E error \in BOOLEAN, hdr \in ReplyHeaders, stream \in Streams :
        \E r \in {probeFinished(client, error, hdr)} :
            /\ r.client.eventStream = "null" => stream = << >>
            /\ client' = r.client
            /\ signals' = signals \o r.signals
            /\ net' = [net EXCEPT !.probe = "done",
                                  !.reply = [error |-> error, hdr |-> hdr],
                                  !.stream = stream,
                                  !.step = "probeFinished"]
    /\ UNCHANGED serverVars

\* some more bytes of the event stream have arrived
ReadyRead ==
    /\ client.eventStream = "open"
    /\ ~client.crashed
    /\ \E n \in 1..Len(net.stream) :
        \E r \in Outcomes(readyRead(client, SubSeq(net.stream, 1, n))) :
            /\ client' = r.client
            /\ signals' = signals \o r.signals
            /\ net' = [net EXCEPT !.stream = SubSeq(@, n + 1, Len(@)),
                                  !.fed = @ \o SubSeq(net.stream, 1, n),
                                  !.step = "readyRead",
                                  !.seps = @ \cup r.used,
                                  !.oob = @ \/ r.oob]
    /\ UNCHANGED serverVars

\* the application calls send(object) or notify(object)
ClientSend ==
    /\ ~client.crashed
    /\ net.posted = NoPost
    /\ net' = [net EXCEPT !.posted = clientSend(client), !.step = "send"]
    /\ UNCHANGED <<client, signals, serverVars>>

\* the reply to a POST of send has arrived (qmcpclientsse.cpp:239-258): on
\* the new transport a reply without error whose body is a JSON object is
\* signalled as received
ReplyFinished ==
    /\ ~client.crashed
    /\ net.posted # NoPost
    /\ \E ok \in BOOLEAN :
        signals' = IF net.posted.handled /\ ok
                   THEN Append(signals, Signal("received", "reply"))
                   ELSE signals
    /\ Len(signals') <= MaxEvents + 1
    /\ net' = [net EXCEPT !.posted = NoPost, !.step = "replyFinished"]
    /\ UNCHANGED <<client, serverVars>>

NextClient == Start \/ ProbeFinished \/ ReadyRead \/ ClientSend \/ ReplyFinished

SpecClient == Init /\ [][NextClient]_vars

\* ------------------------------------------------------------ properties
\* C1: FIFO pairing.  Whenever the backend sends an object for a session on
\* the new transport while requests of that session are still owed a
\* response, the object is written, as a 200 response, to the socket of the
\* oldest such request: the k-th response goes to the k-th request in
\* arrival order.
FifoPairing ==
    [][(/\ req'.op = "send"
        /\ Value(sessionUsesNewProtocol, req'.session)
        /\ req'.session \notin DOMAIN sseStreams
        /\ awaiting[req'.session] # << >>)
       => out' = <<Write(Head(awaiting[req'.session]), 200, req'.session, 1, 0,
                         "json", req'.obj)>>]_vars

\* C2: a pending entry leaves the queue only through a backend response for
\* its session, written to its socket, or through the DELETE /mcp sweep of
\* its session; no other operation removes a pending entry.
ConsumedOnlyByResponseOrSweep ==
    [][\A p \in Range(pendingRequests) :
          p \notin Range(pendingRequests')
          => \/ /\ req'.op = "send"
                /\ req'.session = p.sessionId
                /\ \E w \in WritesOf(out') : w.sock = p.socket /\ w.status = 200
             \/ /\ req'.op = "deleteMcp"
                /\ FromString(req'.hdr) = p.sessionId]_vars

\* C3: the transport of a session is fixed at creation: no step changes the
\* transport recorded for an id that stays in the registry.
TransportFixed ==
    [][\A s \in sessions \cap sessions' :
          Transport(sessionUsesNewProtocol', s) = Transport(sessionUsesNewProtocol, s)]_vars

\* C4: after DELETE /mcp with a well-formed Mcp-Session-Id naming s, the
\* session set, the transport map and the pending queue hold nothing of s.
DeleteLeavesNoResidue ==
    (req.op = "deleteMcp" /\ FromString(req.hdr) # Null)
    => /\ FromString(req.hdr) \notin sessions
       /\ FromString(req.hdr) \notin DOMAIN sessionUsesNewProtocol
       /\ \A p \in Range(pendingRequests) : p.sessionId # FromString(req.hdr)

\* a DELETE of a session the server created has run and answered 200, and the
\* pending requests of another session are still queued
DeleteWitness ==
    /\ req.op = "deleteMcp"
    /\ FromString(req.hdr) \in 1..nextUuid
    /\ FromString(req.hdr) # implicitSession
    /\ \E w \in WritesOf(out) : w.status = 200 /\ w.session = FromString(req.hdr)
    /\ pendingRequests # << >>

\* C5: DELETE /mcp closes the socket of every pending request of the session
\* that it drains.
DeleteClosesDrained ==
    [][req'.op = "deleteMcp"
       => \A p \in Range(pendingRequests) :
             p.sessionId = FromString(req'.hdr)
             => \E i \in 1..Len(out') : out'[i].type = "close" /\ out'[i].sock = p.socket]_vars

\* what a client and the backend observe of a handler: the responses
\* written and the objects delivered, in order
Observable(o) == SelectSeq(o, LAMBDA e : e.type \in {"write", "received"})

EventsOf(o, type) == {i \in 1..Len(o) : o[i].type = type}

\* C6: a root POST that carries an Mcp-Session-Id header does what POST /mcp
\* does for the same header and body from the same state: the same response,
\* the same delivery to the backend, the same pending queue.
RootPostLikePostMcp ==
    [][(req'.op = "post" /\ hasRawHeader(req'.hdr))
       => \E e \in {postMcp(req'.hdr, req'.body, req'.sock)} :
             /\ Observable(out') = Observable(e.out)
             /\ pendingRequests' = e.pendingRequests]_vars

\* the header of the last request is absent, malformed or names no session
\* of the registry as it was before the request
Rejected(h) == ~hasRawHeader(h) \/ FromString(h) = Null \/ FromString(h) \notin sessions

\* C7: POST /mcp with an absent, malformed or unknown Mcp-Session-Id is
\* answered 400 with JSON-RPC error -32600 (reason session_not_found for an
\* unknown id); nothing is delivered, no session is created, and the registry
\* and the pending queue are unchanged.
PostMcpRejectsBadSession ==
    [][(req'.op = "postMcp" /\ Rejected(req'.hdr))
       => /\ \E i \in 1..Len(out') :
                /\ EventsOf(out', "write") = {i}
                /\ out'[i].sock = req'.sock
                /\ out'[i].status = 400
                /\ out'[i].code = -32600
                /\ (FromString(req'.hdr) # Null => out'[i].info = "session_not_found")
          /\ EventsOf(out', "received") = {}
          /\ EventsOf(out', "newSession") = {}
          /\ UNCHANGED <<sessions, implicitSession, sessionUsesNewProtocol,
                         pendingRequests, sseStreams, nextUuid>>]_vars

\* a POST /mcp naming a session that was deleted has been answered 400 while
\* other sessions and pending requests exist
PostMcpRejectedWitness ==
    /\ req.op = "postMcp"
    /\ req.hdr \in 1..nextUuid
    /\ req.hdr \notin sessions
    /\ \E w \in WritesOf(out) : w.status = 400 /\ w.info = "session_not_found"
    /\ sessions # {}
    /\ pendingRequests # << >>

\* C8: a POST /mcp for a known session whose object has an id takes custody of
\* the socket, is appended at the tail of the pending queue and delivered to
\* the backend without any response being written; and a socket held by a
\* pending entry is written to only by a backend send for the entry's session.
RequestDeferred ==
    [][/\ (req'.op = "postMcp" /\ FromString(req'.hdr) \in sessions /\ req'.body = "request")
          => /\ pendingRequests' =
                    Append(pendingRequests, PendingRequest(req'.sock, FromString(req'.hdr)))
             /\ \E i \in EventsOf(out', "registerSession") :
                    out'[i].sock = req'.sock /\ out'[i].session = FromString(req'.hdr)
             /\ \E i \in 1..Len(out') : /\ EventsOf(out', "received") = {i}
                                        /\ out'[i].session = FromString(req'.hdr)
                                        /\ out'[i].info = "request"
             /\ EventsOf(out', "write") = {}
       /\ \A p \in Range(pendingRequests) :
             \A w \in WritesOf(out') :
                w.sock = p.socket => req'.op = "send" /\ req'.session = p.sessionId]_vars

\* a request has just been queued behind an older request of the same session
RequestDeferredWitness ==
    /\ req.op = "postMcp"
    /\ req.body = "request"
    /\ Len(pendingRequests) >= 2
    /\ pendingRequests[Len(pendingRequests)] = PendingRequest(req.sock, req.hdr)
    /\ pendingRequests[1].sessionId = req.hdr

\* C9: a POST /mcp for a known session whose object has no id is answered at
\* once with 202, Content-Length 0 and the echoed session id, is delivered to
\* the backend exactly once, after the 202 is written, and leaves the pending
\* queue as it was.
NotificationAccepted ==
    [][(req'.op = "postMcp" /\ FromString(req'.hdr) \in sessions /\ req'.body = "notification")
       => /\ \E i, j \in 1..Len(out') :
                /\ EventsOf(out', "write") = {i}
                /\ out'[i] = Write(req'.sock, 202, FromString(req'.hdr), 0, 0, "", 0)
                /\ EventsOf(out', "received") = {j}
                /\ out'[j] = Received(FromString(req'.hdr), "notification")
                /\ i < j
          /\ pendingRequests' = pendingRequests]_vars

\* a notification has been answered 202 while a request is pending
NotificationWitness ==
    /\ req.op = "postMcp"
    /\ req.body = "notification"
    /\ \E w \in WritesOf(out) : w.status = 202 /\ w.sock = req.sock
    /\ \E p \in Range(pendingRequests) : p.sessionId = req.hdr

\* C10: GET /mcp without text/event-stream in Accept and without a malformed
\* header answers 204 with an id: the header's id and no new_session when the
\* header names a registered session, otherwise an id not in the registry
\* with new_session raised exactly once, for that id; afterwards the id is
\* registered with transport streamable_http.
GetMcpEstablishes ==
    [][(/\ req'.op = "getMcp"
        /\ ~WantsSSE(req'.accept)
        /\ ~(hasRawHeader(req'.hdr) /\ FromString(req'.hdr) = Null))
       => \E i \in 1..Len(out') :
             /\ EventsOf(out', "write") = {i}
             /\ out'[i].sock = req'.sock
             /\ out'[i].status = 204
             /\ IF FromString(req'.hdr) \in sessions
                THEN /\ out'[i].session = FromString(req'.hdr)
                     /\ EventsOf(out', "newSession") = {}
                ELSE /\ out'[i].session \notin sessions
                     /\ out'[i].session # Null
                     /\ \E j \in 1..Len(out') :
                           /\ EventsOf(out', "newSession") = {j}
                           /\ out'[j].session = out'[i].session
             /\ out'[i].session \in sessions'
             /\ Transport(sessionUsesNewProtocol', out'[i].session) = "streamable_http"]_vars

\* a GET /mcp presenting the id of a deleted session has been given a new id
GetMcpStaleWitness ==
    /\ req.op = "getMcp"
    /\ req.hdr \in 1..nextUuid
    /\ \E w \in WritesOf(out) : w.status = 204 /\ w.session # req.hdr
    /\ \E i \in EventsOf(out, "newSession") : out[i].session \in sessions

\* the registered sessions send() treats as legacy SSE sessions
LegacySessions == {s \in sessions : Transport(sessionUsesNewProtocol, s) = "legacy_sse"}

\* C11: a root POST without Mcp-Session-Id that carries a JSON object is
\* delivered exactly once, under a legacy id chosen by priority: a registered
\* legacy SSE session if there is one, else the implicit session if it
\* exists, else a newly created implicit session announced by new_session;
\* never under the id of a streamable_http session.
RootPostPicksLegacy ==
    [][(req'.op = "post" /\ ~hasRawHeader(req'.hdr) /\ ParseOk(req'.body))
       => \E i \in 1..Len(out') :
             /\ EventsOf(out', "received") = {i}
             /\ Transport(sessionUsesNewProtocol, out'[i].session) = "legacy_sse"
             /\ IF LegacySessions # {}
                THEN out'[i].session \in LegacySessions
                ELSE IF implicitSession # Null
                THEN out'[i].session = implicitSession
                ELSE /\ out'[i].session = implicitSession'
                     /\ out'[i].session \notin sessions
                     /\ \E j \in 1..(i - 1) : out'[j] = NewSession(out'[i].session)]_vars

\* C12: there is at most one implicit session.  Once created its id never
\* changes; new_session is raised for it in the step that creates it, exactly
\* once, and never again; and it is never the id of a registered SSE or
\* streamable_http session.
ImplicitSessionUnique ==
    [][/\ implicitSession # Null => implicitSession' = implicitSession
       /\ implicitSession # Null
          => \A i \in EventsOf(out', "newSession") : out'[i].session # implicitSession
       /\ implicitSession' # implicitSession
          => \E i \in 1..Len(out') :
                {j \in EventsOf(out', "newSession") : out'[j].session = implicitSession'} = {i}
       /\ implicitSession' # Null
          => /\ implicitSession' \notin sessions'
             /\ implicitSession' \notin DOMAIN sessionUsesNewProtocol'
             /\ implicitSession' \notin DOMAIN sseStreams']_vars

\* a headerless root POST has been delivered under the implicit session that
\* an earlier POST created, after a real session came and went in between
ImplicitReusedWitness ==
    /\ req.op = "post"
    /\ ~hasRawHeader(req.hdr)
    /\ implicitSession # Null
    /\ nextUuid > implicitSession
    /\ EventsOf(out, "newSession") = {}
    /\ \E i \in EventsOf(out, "received") : out[i].session = implicitSession

\* C13: POST /messages/?session_id=<id>.  For an id that is not a registered
\* legacy session (malformed, unknown, or the id of a streamable_http
\* session) the request is refused: nothing is delivered to the backend and
\* the handler does not acknowledge with `Accept` (it writes nothing but a
\* 400, or returns empty and leaves the error response to the framing
\* layer).  For a registered legacy session the parsed object is delivered
\* once as (session_id, object) and the response body is `Accept`.
PostMessagesChecksLegacy ==
    [][req'.op = "postMessages"
       => IF FromString(req'.hdr) \in LegacySessions
          THEN /\ out'[Len(out')] = Return("Accept")
               /\ ParseOk(req'.body)
                  => \E i \in 1..Len(out') :
                        /\ EventsOf(out', "received") = {i}
                        /\ out'[i] = Received(FromString(req'.hdr), req'.body)
          ELSE /\ EventsOf(out', "received") = {}
               /\ out'[Len(out')] = Return("")
               /\ \A w \in WritesOf(out') : w.status = 400]_vars

\* C14: a backend send for a streamable_http session that has no pending
\* entry is dropped: nothing is written to any socket or SSE stream, and the
\* registry and the pending queue (the entries of every other session) stay
\* as they were.
SendWithoutPendingDropped ==
    [][(/\ req'.op = "send"
        /\ Transport(sessionUsesNewProtocol, req'.session) = "streamable_http"
        /\ \A p \in Range(pendingRequests) : p.sessionId # req'.session)
       => /\ out' = << >>
          /\ UNCHANGED <<sessions, implicitSession, sessionUsesNewProtocol,
                         pendingRequests, sseStreams, nextUuid>>]_vars

\* a send for a streamable_http session without pending entry has been
\* dropped while a request of another session is pending
SendDroppedWitness ==
    /\ req.op = "send"
    /\ req.session \in sessions
    /\ Transport(sessionUsesNewProtocol, req.session) = "streamable_http"
    /\ out = << >>
    /\ pendingRequests # << >>
    /\ \A p \in Range(pendingRequests) : p.sessionId # req.session

\* C15: once DELETE /mcp has ended streamable_http session S, and until a
\* session with id S is registered again, every backend send(S, object) is
\* dropped: it writes to no socket and to no SSE stream.
SendAfterDeleteDropped ==
    [][(req'.op = "send" /\ req'.session \in terminated) => out' = << >>]_vars

\* C16: when the client socket of a legacy event stream disconnects, the
\* stream and its session leave the registry; from then on POST /messages/
\* with that session id is refused as unknown (nothing delivered, no
\* `Accept`), and a root POST without header is never delivered under it.
StreamDisconnectRemovesSession ==
    [][/\ req'.op = "disconnect"
          => \A s \in DOMAIN sseStreams :
                sseStreams[s] = req'.sock
                => s \notin DOMAIN sseStreams' /\ s \notin sessions'
       /\ (req'.op = "postMessages" /\ FromString(req'.hdr) \in lostStreams)
          => /\ EventsOf(out', "received") = {}
             /\ out'[Len(out')] # Return("Accept")
       /\ (req'.op = "post" /\ ~hasRawHeader(req'.hdr))
          => \A i \in EventsOf(out', "received") : out'[i].session \notin lostStreams]_vars

\* C17: when the client socket of a pending request disconnects, the pending
\* entry of that socket is removed and the session stays registered; hence no
\* pending entry ever refers to a closed socket, and a backend send never
\* writes to a closed socket (it is paired with the oldest live request).
PendingDisconnectSweeps ==
    [][/\ req'.op = "disconnect"
          => /\ \A p \in Range(pendingRequests) :
                   p.socket = req'.sock => p \notin Range(pendingRequests')
             /\ sessions' = sessions
       /\ \A p \in Range(pendingRequests') : p.socket \notin closed'
       /\ req'.op = "send" => \A w \in WritesOf(out') : w.sock \notin closed]_vars

\* the per-session bound of the pending queue, as configured for this model
\* (the spec's default is 64)
QueueLimit == 1

\* the number of pending entries of session s in queue q
PendingCount(q, s) == Len(SelectSeq(q, LAMBDA p : p.sessionId = s))

\* C18: no session ever has more than QueueLimit pending entries: a POST
\* (/mcp or root) with a request (an object with id) for a known session
\* whose queue is full is answered 503 and leaves the queue as it was.
PendingQueueBounded ==
    [][/\ \A s \in sessions' : PendingCount(pendingRequests', s) <= QueueLimit
       /\ (/\ req'.op \in {"postMcp", "post"}
           /\ FromString(req'.hdr) \in sessions
           /\ ParseOk(req'.body) /\ ContainsId(req'.body)
           /\ PendingCount(pendingRequests, FromString(req'.hdr)) >= QueueLimit)
          => /\ \E w \in WritesOf(out') : w.sock = req'.sock /\ w.status = 503
             /\ pendingRequests' = pendingRequests]_vars

\* C19: when the probe's reply arrives the client adopts the new transport
\* (usesNewProtocol set, the reply's session id recorded, started signalled,
\* no event stream opened) exactly if the reply has no network error and
\* carries an Mcp-Session-Id that parses to a non-null id; in every other
\* case it opens GET /sse, stays on the legacy transport and signals nothing,
\* and on the legacy transport started is signalled only by a readyRead that
\* has seen an `event: endpoint` line.
ProbeDecidesTransport ==
    [][/\ net'.step = "probeFinished"
          => IF /\ ~net'.reply.error
                /\ net'.reply.hdr # Absent
                /\ FromString(net'.reply.hdr) # Null
             THEN /\ client'.usesNewProtocol
                  /\ client'.sessionId = FromString(net'.reply.hdr)
                  /\ signals' = Append(signals, Signal("started", ""))
                  /\ client'.eventStream = "null"
             ELSE /\ ~client'.usesNewProtocol
                  /\ client'.eventStream = "open"
                  /\ client'.sse = "url/sse"
                  /\ signals' = signals
       /\ (/\ client'.eventStream = "open"
           /\ \E i \in (Len(signals) + 1)..Len(signals') : signals'[i].signal = "started")
          => /\ net'.step = "readyRead"
             /\ \E i \in 1..Len(net'.fed) : net'.fed[i] = EvEndpoint]_vars

\* a reply without error but with an unparsable Mcp-Session-Id has sent the
\* client to the legacy transport, where the endpoint event has now arrived
\* and started has been signalled
ProbeFallbackWitness ==
    /\ net.step = "readyRead"
    /\ ~net.reply.error
    /\ net.reply.hdr = Garbage
    /\ client.eventStream = "open"
    /\ ~client.usesNewProtocol
    /\ client.message = "/messages/?session_id=1"
    /\ \E i \in 1..Len(signals) : signals[i].signal = "started"

\* C20: the signals of the parser do not depend on how the stream is cut
\* into readyRead chunks: once a stream has been read to its end, in
\* whatever chunks, the client has emitted the signals it emits when the
\* whole stream arrives in one chunk.
ChunkingIndependent ==
    (client.eventStream = "open" /\ net.stream = << >> /\ ~client.crashed)
    => signals = readyRead(fallbackToLegacyProtocol(NewClient), net.fed).signals

\* C21: the parser chooses its separator when it first sees a double
\* separator and keeps it for the rest of the stream: over all readyRead
\* calls, every event block is cut with one and the same separator.
SeparatorKept == Cardinality(net.seps) <= 1

\* C22: a POST /mcp for a known session whose body is not a valid JSON
\* object is answered 400 with body {"error":"Invalid JSON"} on its own
\* socket, delivers nothing to the backend and leaves the pending queue
\* exactly as it was.
InvalidJsonLeavesQueue ==
    [][(req'.op = "postMcp" /\ ~Rejected(req'.hdr) /\ ~ParseOk(req'.body))
       => /\ \E i \in 1..Len(out') :
                /\ EventsOf(out', "write") = {i}
                /\ out'[i].sock = req'.sock
                /\ out'[i].status = 400
                /\ out'[i].info = "invalid_json"
          /\ EventsOf(out', "received") = {}
          /\ pendingRequests' = pendingRequests]_vars

\* C23: every entry of the pending queue belongs to a session that is in
\* the registry and whose transport is streamable_http, so a backend send
\* for that session is routed to the pending queue.
PendingOwnedByNewProtocol ==
    \A p \in Range(pendingRequests) :
        /\ p.sessionId \in sessions
        /\ Value(sessionUsesNewProtocol, p.sessionId)

\* ------------------------------------------------ the answering backend
\* a root POST that carries an Mcp-Session-Id header
HeaderPost == Post /\ hasRawHeader(req'.hdr)

\* the backend answers the oldest request delivered to it for session s and
\* not answered yet with one object
ReplyTo(s) == awaiting[s] # << >> /\ Send /\ req'.session = s

Reply == \E s \in 1..MaxUuid : ReplyTo(s)

\* streamable_http sessions that are never deleted, and a backend that sends
\* one object for every request delivered to it and nothing else
NextReply == GetMcp \/ PostMcp \/ HeaderPost \/ Reply \/ Returned

\* the event loop returns from every handler and takes up every answer the
\* backend has queued for a session
SpecReply ==
    /\ Init
    /\ [][NextReply]_vars
    /\ WF_vars(Returned)
    /\ \A s \in 1..MaxUuid : SF_vars(ReplyTo(s))

\* C24: with a backend that sends exactly one object for every request
\* delivered to it and none for notifications, and no session deleted,
\* every request accepted for a streamable_http session through POST /mcp
\* or a root POST with Mcp-Session-Id eventually has an HTTP response written
\* to its own socket, and no pending entry stays in the queue forever.
DeferredAnswered ==
    /\ \A s \in 1..MaxUuid, k \in Sockets :
          (k \in Range(awaiting[s]))
          ~> (\E w \in WritesOf(out) : w.sock = k /\ w.status = 200 /\ w.session = s)
    /\ \A s \in 1..MaxUuid, k \in Sockets :
          (PendingRequest(k, s) \in Range(pendingRequests))
          ~> (PendingRequest(k, s) \notin Range(pendingRequests))

\* the pending entries of q that belong to session s, and those that do not
OfSession(q, s) == SelectSeq(q, LAMBDA p : p.sessionId = s)

NotOfSession(q, s) == SelectSeq(q, LAMBDA p : p.sessionId # s)

\* C25: a backend send for session A removes at most one pending entry and
\* only one of session A; the pending entries of every other session keep
\* their content and relative order, and nothing is written to a socket
\* queued by another session.
SendIsolatesSessions ==
    [][req'.op = "send"
       => /\ NotOfSession(pendingRequests', req'.session)
               = NotOfSession(pendingRequests, req'.session)
          /\ \/ OfSession(pendingRequests', req'.session)
                    = OfSession(pendingRequests, req'.session)
             \/ OfSession(pendingRequests', req'.session)
                    = Tail(OfSession(pendingRequests, req'.session))
          /\ \A w \in WritesOf(out') : \A p \in Range(pendingRequests) :
                 p.socket = w.sock => p.sessionId = req'.session]_vars

\* the backend's object for one session has been written to that session's
\* request while the request of another session, queued before it, waits on
SendIsolatesWitness ==
    /\ req.op = "send"
    /\ \E w \in WritesOf(out) : w.status = 200 /\ w.session = req.session
    /\ \E p \in Range(pendingRequests) : p.sessionId # req.session
    /\ awaiting[req.session] = << >>
    /\ \E u \in DOMAIN awaiting : u # req.session /\ awaiting[u] # << >>

\* C26: for every session id under which an inbound object is delivered to
\* the backend, newSession was raised for that id exactly once and before
\* the first received for it; no handler emits received for an id that was
\* never announced, and no id is announced a second time.
AnnouncedBeforeReceived ==
    [][/\ \A i \in EventsOf(out', "received") :
            /\ out'[i].session \in DOMAIN announced
            /\ announced'[out'[i].session] = 1
            /\ \/ announced[out'[i].session] = 1
               \/ \E j \in EventsOf(out', "newSession") :
                      j < i /\ out'[j].session = out'[i].session
       /\ \A j \in EventsOf(out', "newSession") :
            /\ out'[j].session \in DOMAIN announced
            /\ announced[out'[j].session] = 0
            /\ announced'[out'[j].session] = 1]_vars

\* an object has been delivered under the id of an event-stream session
\* that an earlier GET /sse had announced
AnnouncedWitness ==
    /\ req.op \in {"post", "postMessages"}
    /\ \E i \in EventsOf(out, "received") :
          /\ out[i].session \in DOMAIN sseStreams
          /\ EventsOf(out, "newSession") = {}
          /\ announced[out[i].session] = 1

\* ------------------------------------------- the client against the server
\* what the client's QNetworkReply shows of the response the handler wrote
\* on socket sock: an error for a status of 400 and above, and the
\* Mcp-Session-Id header of the response; a connection that got no response
\* ends in an error
ReplyOf(o, sock) ==
    IF \E w \in WritesOf(o) : w.sock = sock
    THEN LET w == CHOOSE w \in WritesOf(o) : w.sock = sock
         IN [error |-> w.status >= 400,
             hdr |-> IF w.session = Null THEN Absent ELSE w.session]
    ELSE [error |-> TRUE, hdr |-> Absent]

\* the server handles the client's probe: a POST /mcp with Content-Type
\* only, carrying a ping request with id 0
ServeProbe ==
    /\ req = NoReq
    /\ net.probe = "inflight"
    /\ UNCHANGED <<crashed, client, signals>>
    /\ \E sock \in FreeSocket :
        /\ req' = Req("postMcp", Absent, "", "request", sock, Null, 0)
        /\ \E e \in {postMcp(Absent, "request", sock)} :
               /\ ApplyServer(e)
               /\ Arrive(e, Absent, "request", sock)
               /\ net' = [net EXCEPT !.probe = "answered",
                                     !.reply = ReplyOf(e.out, sock),
                                     !.step = "serveProbe"]
        /\ Capacity'

\* the client's finished handler runs on the server's response
ProbeAnswered ==
    /\ net.probe = "answered"
    /\ \E r \in {probeFinished(client, net.reply.error, net.reply.hdr)} :
        /\ client' = r.client
        /\ signals' = signals \o r.signals
    /\ net' = [net EXCEPT !.probe = "done", !.step = "probeFinished"]
    /\ UNCHANGED serverVars

\* one client started against the server, which serves the streamable_http
\* sessions of other clients too
NextComposed == GetMcp \/ PostMcp \/ DeleteMcp \/ Returned
                \/ Start \/ ServeProbe \/ ProbeAnswered

SpecComposed == Init /\ [][NextComposed]_vars

\* C27: the client's probe is a POST /mcp without Mcp-Session-Id, which the
\* server answers 400 without an Mcp-Session-Id header; a client started
\* against this server never adopts the new transport and ends in the
\* legacy fallback with its event stream requested.
ProbeAlwaysFallsBack ==
    /\ ~client.usesNewProtocol
    /\ client.sessionId = Null
    /\ net.probe = "answered" => (net.reply.error /\ net.reply.hdr = Absent)
    /\ net.probe = "done" => (client.eventStream = "open" /\ client.sse = "url/sse")

\* the probe was answered by a server that had a streamable_http session
\* with a request pending, and the client has fallen back
ProbeFallsBackWitness ==
    /\ net.probe = "done"
    /\ client.eventStream = "open"
    /\ \E s \in sessions : Value(sessionUsesNewProtocol, s)
    /\ pendingRequests # << >>

\* C28: the client issues no POST before its transport is established: a
\* send called before started has been signalled sends nothing, and in
\* legacy mode every POST goes to the endpoint the endpoint event announced,
\* never to the probe URL /mcp.
NoPostBeforeStarted ==
    [][net'.step = "send"
       => /\ (\A i \in 1..Len(signals) : signals[i].signal # "started")
                => net'.posted = NoPost
          /\ (~client.usesNewProtocol /\ net'.posted # NoPost)
                => net'.posted.url # "/mcp"]_vars

\* C29: the parser never reads a line that does not exist: for every event
\* block, also one that consists of a single event line without a data
\* line, it accesses only the lines of the block, and handles the block
\* without dying.
ParserReadsInRange == ~net.oob /\ ~client.crashed

====
